---- MODULE Spec2Model ----
(***************************************************************************)
(* Model of the sandbox resource manager, ResourceManagerInner, of          *)
(* runtime-rs (crates/resource/src/manager_inner.rs).                       *)
(*                                                                         *)
(* The orchestrator's fields are the variables.  Each async fn is a chain  *)
(* of actions, one per await/`?` point, so that every early return of the  *)
(* code is a transition of the model.  Collaborators (hypervisor, agent,   *)
(* network/share-fs backends, cgroup resource, device manager) answer      *)
(* nondeterministically: success or failure.  An error is the sequence of  *)
(* its anyhow context strings, outermost first, ending with the cause.     *)
(***************************************************************************)
EXTENDS Integers, Sequences, FiniteSets, TLC

VARIABLES
    alive,              \* an orchestrator value exists (new or restore returned Ok)
    hv_fs,              \* hypervisor.capabilities().is_fs_sharing_supported()
    sid,                \* field sid
    toml_config,        \* field toml_config
    network,            \* field network: Option<Arc<dyn Network>>
    share_fs,           \* field share_fs: Option<Arc<dyn ShareFs>>
    cgroups_resource,   \* field cgroups_resource
    device_manager,     \* field device_manager: Arc<RwLock<DeviceManager>>
    saved,              \* the last ResourceState returned by save
    pc,                 \* position of the running orchestrator operation
    loc,                \* its local variables
    worker,             \* the OS thread spawned by handle_network
    log,                \* collaborator calls made by the running operation
    result,             \* what the last operation returned
    task,               \* per container: a running handler_devices call
    restored            \* whether the orchestrator came from restore and has not been
                        \* prepared since, and the configuration restore was given

vars == <<alive, hv_fs, sid, toml_config, network, share_fs, cgroups_resource,
          device_manager, saved, pc, loc, worker, log, result, task, restored>>

\* rootfs_resource and volume_resource are black boxes to this file: it never reads
\* their records, so they carry no state here
fields == <<alive, sid, toml_config, network, share_fs, cgroups_resource, device_manager>>

-----------------------------------------------------------------------------
(* Bounds of the model *)

MaxConfigs == 2     \* longest device_configs list given to prepare_before_start_vm
MaxIfaces == 2      \* most interfaces a network backend reports
MaxDevices == 2     \* longest linux.devices list given to handler_devices

-----------------------------------------------------------------------------
(* Values *)

\* the containers of the sandbox
Cids == {"c1", "c2"}

TheSid == "sb"

None == [some |-> FALSE, entry |-> 0]

Some(i) == [some |-> TRUE, entry |-> i]

\* Result<T>: Ok(val) or Err(chain of context strings ending with the cause)
Ok == [ok |-> TRUE, err |-> <<>>]

Err(chain) == [ok |-> FALSE, err |-> chain]

\* anyhow's .context(c) on a Result
Context(r, c) == IF r.ok THEN r ELSE Err(<<c>> \o r.err)

\* the causes raised by collaborators; every one starts with "E:"
Causes == {"E:cgroups new", "E:device manager new", "E:capabilities", "E:share_fs new",
           "E:share_fs setup before", "E:bindmounts new", "E:bindmounts op",
           "E:runtime build", "E:network new", "E:network setup", "E:panic",
           "E:share_fs setup after", "E:interfaces", "E:update_interface",
           "E:neighs", "E:add_arp_neighbors", "E:routes", "E:update_routes",
           "E:get_storages", "E:rootfs", "E:volumes", "E:do_handle_device",
           "E:cgroups update", "E:cgroups delete", "E:share_fs mount cleanup",
           "E:cgroups save", "E:cgroups restore"}

\* kata_types::config::TomlConfig, reduced to what the orchestrator reads:
\* runtime.sandbox_bind_mounts, and a tag standing for every other setting
DefaultConfig == [sandbox_bind_mounts |-> <<>>, tag |-> "default"]

Configs == {DefaultConfig,
            [sandbox_bind_mounts |-> <<>>, tag |-> "custom"],
            [sandbox_bind_mounts |-> <<"/mnt/a">>, tag |-> "custom"]}

ResourceConfigs == {"ShareFs", "Network"}

SeqsUpTo(S, n) == UNION {[1..k -> S] : k \in 0..n}

NoLoc == [cfgs |-> <<>>, i |-> 0, pending |-> 0, items |-> 0]

NoWorker == [pc |-> "none", kind |-> "none", err |-> <<>>]

NoResult == [op |-> "none", ok |-> TRUE, err |-> <<>>, val |-> <<>>]

Ret(op, r, v) == [op |-> op, ok |-> r.ok, err |-> r.err, val |-> v]

\* a collaborator call: what was called, for which list entry (or with how many
\* items), on which thread, and how it ended ("ok", "err" or "panic")
Ev(step, entry, thread, outcome) ==
    [step |-> step, entry |-> entry, thread |-> thread, outcome |-> outcome]

Out(r) == IF r.ok THEN "ok" ELSE "err"

NoSaved == [some |-> FALSE, endpoint |-> <<>>,
            cgroup_state |-> [some |-> FALSE, v |-> [path |-> "", limits |-> {}]],
            had_share_fs |-> FALSE]

NoInfo == [ok |-> TRUE, err |-> <<>>, kind |-> "none", device_id |-> <<>>,
           virt_path |-> <<>>, driver_option |-> ""]

NoTask == [pc |-> "idle", devs |-> <<>>, i |-> 0, devices |-> <<>>, reqs |-> <<>>,
           infos |-> <<>>, res |-> Ok]

TasksIdle == \A c \in Cids : task[c].pc = "idle"

NoRestored == [some |-> FALSE, config |-> DefaultConfig]

-----------------------------------------------------------------------------
(* Collaborators outside manager_inner.rs *)

\* CgroupsResource::new(sid, &toml_config): a cgroup scoped to the sandbox
CgroupsNew(s) == [path |-> s, limits |-> {}]

NoCgroups == [path |-> "", limits |-> {}]

\* DeviceManager::new(hypervisor) behind its RwLock
DeviceManagerNew == [devices |-> {}, lock |-> "free"]

-----------------------------------------------------------------------------
Init ==
    /\ alive = FALSE
    /\ hv_fs \in BOOLEAN
    /\ sid = ""
    /\ toml_config = DefaultConfig
    /\ network = None
    /\ share_fs = None
    /\ cgroups_resource = NoCgroups
    /\ device_manager = DeviceManagerNew
    /\ saved = NoSaved
    /\ pc = "idle"
    /\ loc = NoLoc
    /\ worker = NoWorker
    /\ log = <<>>
    /\ result = NoResult
    /\ task = [c \in Cids |-> NoTask]
    /\ restored = NoRestored

\* an operation returns r (with value v) to its caller
Return(op, r, v) ==
    /\ pc' = "returned"
    /\ loc' = loc
    /\ result' = Ret(op, r, v)

\* the caller takes the returned value; the orchestrator is ready for the next call
Resume ==
    /\ pc = "returned"
    /\ pc' = "idle"
    /\ loc' = NoLoc
    /\ log' = <<>>
    /\ result' = NoResult
    /\ UNCHANGED <<fields, hv_fs, restored, saved, worker, task>>

-----------------------------------------------------------------------------
(* ResourceManagerInner::new *)

\* the outcomes of the two fallible constructions of new, in the order made
NewOutcomes ==
    { [res |-> Err(<<"E:cgroups new">>),
       steps |-> <<Ev("cgroups_new", 0, "caller", "err")>>],
      [res |-> Context(Err(<<"E:device manager new">>), "failed to create device manager"),
       steps |-> <<Ev("cgroups_new", 0, "caller", "ok"),
                   Ev("device_manager_new", 0, "caller", "err")>>],
      [res |-> Ok,
       steps |-> <<Ev("cgroups_new", 0, "caller", "ok"),
                   Ev("device_manager_new", 0, "caller", "ok")>>] }

New(config) ==
    /\ pc = "idle" /\ ~alive /\ TasksIdle
    /\ \E o \in NewOutcomes :
        /\ log' = o.steps
        /\ Return("new", o.res, <<>>)
        /\ IF o.res.ok
             THEN /\ alive' = TRUE
                  /\ sid' = TheSid
                  /\ toml_config' = config
                  /\ network' = None
                  /\ share_fs' = None
                  /\ cgroups_resource' = CgroupsNew(TheSid)
                  /\ device_manager' = DeviceManagerNew
             ELSE UNCHANGED fields
    /\ UNCHANGED <<hv_fs, restored, saved, worker, task>>

\* pub fn config(&self) -> Arc<TomlConfig> { self.toml_config.clone() }
Config == toml_config

-----------------------------------------------------------------------------
(* ResourceManagerInner::handle_sandbox_bindmounts *)

\* mutant: the early return for an empty list is missing
HandleSandboxBindmountsNoEmptyTest(cfg, setup, e) ==
    LET op == IF setup THEN "setup_sandbox_bind_mounts" ELSE "cleanup_sandbox_bind_mounts"
    IN  { [res |-> Err(<<"E:bindmounts new">>),
           steps |-> <<Ev("bindmounts_new", e, "caller", "err")>>],
          [res |-> Err(<<"E:bindmounts op">>),
           steps |-> <<Ev("bindmounts_new", e, "caller", "ok"),
                       Ev(op, e, "caller", "err")>>],
          [res |-> Ok,
           steps |-> <<Ev("bindmounts_new", e, "caller", "ok"),
                       Ev(op, e, "caller", "ok")>>] }

\* the outcomes of handle_sandbox_bindmounts(setup) under configuration cfg for
\* entry e: its result and the bind-mount operations it performed
HandleSandboxBindmounts(cfg, setup, e) ==
    LET op == IF setup THEN "setup_sandbox_bind_mounts" ELSE "cleanup_sandbox_bind_mounts"
    IN  IF cfg.sandbox_bind_mounts = <<>>
          THEN { [res |-> Ok, steps |-> <<>>] }
          ELSE { [res |-> Err(<<"E:bindmounts new">>),
                  steps |-> <<Ev("bindmounts_new", e, "caller", "err")>>],
                 [res |-> Err(<<"E:bindmounts op">>),
                  steps |-> <<Ev("bindmounts_new", e, "caller", "ok"),
                              Ev(op, e, "caller", "err")>>],
                 [res |-> Ok,
                  steps |-> <<Ev("bindmounts_new", e, "caller", "ok"),
                              Ev(op, e, "caller", "ok")>>] }

-----------------------------------------------------------------------------
(* ResourceManagerInner::prepare_before_start_vm *)

PrepareStart(cfgs) ==
    /\ pc = "idle" /\ alive /\ TasksIdle
    /\ pc' = "prepare_loop"
    /\ loc' = [NoLoc EXCEPT !.cfgs = cfgs, !.i = 1]
    /\ log' = <<>>
    /\ result' = NoResult
    /\ restored' = NoRestored
    /\ UNCHANGED <<fields, hv_fs, saved, worker, task>>

\* for dc in device_configs { match dc { ... } }  Ok(())
PrepareLoop ==
    /\ pc = "prepare_loop"
    /\ IF loc.i > Len(loc.cfgs)
         THEN Return("prepare_before_start_vm", Ok, <<>>)
         ELSE /\ pc' = IF loc.cfgs[loc.i] = "ShareFs" THEN "sf_capabilities" ELSE "hn_spawn"
              /\ UNCHANGED <<loc, result>>
    /\ UNCHANGED <<fields, hv_fs, restored, saved, worker, log, task>>

\* mutant: the capability is queried but the backend is constructed whatever it says
ShareFsCapabilitiesIgnored ==
    /\ pc = "sf_capabilities"
    /\ \E r \in {Ok, Err(<<"E:capabilities">>)} :
        /\ log' = Append(log, Ev("capabilities", loc.i, "caller", Out(r)))
        /\ IF ~r.ok
             THEN Return("prepare_before_start_vm", r, <<>>)
             ELSE pc' = "sf_new" /\ UNCHANGED <<loc, result>>
    /\ UNCHANGED <<fields, hv_fs, restored, saved, worker, task>>

\* self.share_fs = if self.hypervisor.capabilities().await?.is_fs_sharing_supported()
\* { .. } else { None }
ShareFsCapabilities ==
    /\ pc = "sf_capabilities"
    /\ \E r \in {Ok, Err(<<"E:capabilities">>)} :
        /\ log' = Append(log, Ev("capabilities", loc.i, "caller", Out(r)))
        /\ IF ~r.ok
             THEN /\ Return("prepare_before_start_vm", r, <<>>)
                  /\ UNCHANGED share_fs
             ELSE IF hv_fs
               THEN /\ pc' = "sf_new"
                    /\ UNCHANGED <<loc, result, share_fs>>
               ELSE /\ share_fs' = None
                    /\ pc' = "prepare_loop"
                    /\ loc' = [loc EXCEPT !.i = @ + 1]
                    /\ UNCHANGED result
    /\ UNCHANGED <<alive, sid, toml_config, network, cgroups_resource, device_manager,
                   hv_fs, restored, saved, worker, task>>

\* mutant: the backend is stored in the orchestrator as soon as it is constructed
ShareFsNewStoresHandle ==
    /\ pc = "sf_new"
    /\ \E r \in {Ok, Err(<<"E:share_fs new">>)} :
        /\ log' = Append(log, Ev("share_fs_new", loc.i, "caller", Out(r)))
        /\ IF r.ok
             THEN pc' = "sf_setup_device" /\ share_fs' = Some(loc.i) /\ UNCHANGED <<loc, result>>
             ELSE /\ Return("prepare_before_start_vm", Context(r, "new share fs"), <<>>)
                  /\ UNCHANGED share_fs
    /\ UNCHANGED <<alive, sid, toml_config, network, cgroups_resource, device_manager,
                   hv_fs, restored, saved, worker, task>>

\* mutant: the error of share_fs::new is returned without a context
ShareFsNewNoContext ==
    /\ pc = "sf_new"
    /\ \E r \in {Ok, Err(<<"E:share_fs new">>)} :
        /\ log' = Append(log, Ev("share_fs_new", loc.i, "caller", Out(r)))
        /\ IF r.ok
             THEN pc' = "sf_setup_device" /\ UNCHANGED <<loc, result>>
             ELSE Return("prepare_before_start_vm", r, <<>>)
    /\ UNCHANGED <<fields, hv_fs, restored, saved, worker, task>>

\* share_fs::new(&self.sid, &c).context("new share fs")?
ShareFsNew ==
    /\ pc = "sf_new"
    /\ \E r \in {Ok, Err(<<"E:share_fs new">>)} :
        /\ log' = Append(log, Ev("share_fs_new", loc.i, "caller", Out(r)))
        /\ IF r.ok
             THEN pc' = "sf_setup_device" /\ UNCHANGED <<loc, result>>
             ELSE Return("prepare_before_start_vm", Context(r, "new share fs"), <<>>)
    /\ UNCHANGED <<fields, hv_fs, restored, saved, worker, task>>

\* mutant: the result of the pre-boot device setup is dropped instead of `?`
ShareFsSetupDeviceDropped ==
    /\ pc = "sf_setup_device"
    /\ \E r \in {Ok, Err(<<"E:share_fs setup before">>)} :
        /\ log' = Append(log, Ev("setup_device_before_start_vm", loc.i, "caller", Out(r)))
        /\ pc' = "sf_bindmounts"
        /\ UNCHANGED <<loc, result>>
    /\ UNCHANGED <<fields, hv_fs, restored, saved, worker, task>>

\* share_fs.setup_device_before_start_vm(..).await.context(..)?
ShareFsSetupDevice ==
    /\ pc = "sf_setup_device"
    /\ \E r \in {Ok, Err(<<"E:share_fs setup before">>)} :
        /\ log' = Append(log, Ev("setup_device_before_start_vm", loc.i, "caller", Out(r)))
        /\ IF r.ok
             THEN pc' = "sf_bindmounts" /\ UNCHANGED <<loc, result>>
             ELSE Return("prepare_before_start_vm",
                         Context(r, "setup share fs device before start vm"), <<>>)
    /\ UNCHANGED <<fields, hv_fs, restored, saved, worker, task>>

\* mutant: a failed bind-mount setup clears the share-fs handle
ShareFsBindmountsClearsOnFailure ==
    /\ pc = "sf_bindmounts"
    /\ \E o \in HandleSandboxBindmounts(toml_config, TRUE, loc.i) :
        /\ log' = log \o o.steps
        /\ IF o.res.ok
             THEN /\ share_fs' = Some(loc.i)
                  /\ pc' = "prepare_loop"
                  /\ loc' = [loc EXCEPT !.i = @ + 1]
                  /\ UNCHANGED result
             ELSE /\ Return("prepare_before_start_vm",
                            Context(o.res, "failed setup sandbox bindmounts"), <<>>)
                  /\ share_fs' = None
    /\ UNCHANGED <<alive, sid, toml_config, network, cgroups_resource, device_manager,
                   hv_fs, restored, saved, worker, task>>

\* self.handle_sandbox_bindmounts(true).await.context(..)?; Some(share_fs)
ShareFsBindmounts ==
    /\ pc = "sf_bindmounts"
    /\ \E o \in HandleSandboxBindmounts(toml_config, TRUE, loc.i) :
        /\ log' = log \o o.steps
        /\ IF o.res.ok
             THEN /\ share_fs' = Some(loc.i)
                  /\ pc' = "prepare_loop"
                  /\ loc' = [loc EXCEPT !.i = @ + 1]
                  /\ UNCHANGED result
             ELSE /\ Return("prepare_before_start_vm",
                            Context(o.res, "failed setup sandbox bindmounts"), <<>>)
                  /\ UNCHANGED share_fs
    /\ UNCHANGED <<alive, sid, toml_config, network, cgroups_resource, device_manager,
                   hv_fs, restored, saved, worker, task>>

-----------------------------------------------------------------------------
(* ResourceManagerInner::handle_network *)

\* thread::spawn(move || ...)
HandleNetworkSpawn ==
    /\ pc = "hn_spawn"
    /\ worker' = [NoWorker EXCEPT !.pc = "rt_build"]
    /\ log' = Append(log, Ev("spawn", loc.i, "caller", "ok"))
    /\ pc' = "hn_join"
    /\ UNCHANGED <<fields, hv_fs, restored, saved, loc, result, task>>

\* the worker thread ends: with the closure's result, or by a panic
WorkerExit(kind, r) == [pc |-> "exited", kind |-> kind, err |-> r.err]

\* one step of the closure: it goes on, returns an error with context ctx, or panics
WorkerStep(at, step, cause, ctx, next) ==
    /\ worker.pc = at
    /\ \E o \in {"ok", "err", "panic"} :
        /\ log' = Append(log, Ev(step, loc.i, "worker", o))
        /\ worker' = CASE o = "ok" -> IF next = "exited" THEN WorkerExit("ok", Ok)
                                      ELSE [worker EXCEPT !.pc = next]
                       [] o = "err" -> WorkerExit("err", IF ctx = "" THEN Err(<<cause>>)
                                                         ELSE Context(Err(<<cause>>), ctx))
                       [] o = "panic" -> WorkerExit("panic", Err(<<"E:panic">>))
    /\ UNCHANGED <<fields, hv_fs, restored, saved, pc, loc, result, task>>

\* runtime::Builder::new_current_thread().enable_io().build()?
WorkerRuntimeBuild == WorkerStep("rt_build", "runtime_build", "E:runtime build", "", "net_new")

\* rt.block_on(network::new(&network_config)).context("new network")?
WorkerNetworkNew == WorkerStep("net_new", "network_new", "E:network new", "new network", "net_setup")

\* rt.block_on(d.setup(hypervisor.as_ref())).context("setup network")?; Ok(d)
WorkerNetworkSetup ==
    WorkerStep("net_setup", "network_setup", "E:network setup", "setup network", "exited")

\* mutant: a panic of the worker is reported like a failed setup
JoinResultPanicAsFailure(w) ==
    CASE w.kind = "panic" -> Context(Err(<<"E:panic">>), "failed to set up network")
      [] w.kind = "err" -> Context(Err(w.err), "failed to set up network")
      [] OTHER -> Ok

\* what .join().map_err(..).context(..)?.context(..)? makes of the ended thread
JoinResult(w) ==
    CASE w.kind = "panic" -> Context(Err(<<"E:panic">>), "Couldn't join on the associated thread")
      [] w.kind = "err" -> Context(Err(w.err), "failed to set up network")
      [] OTHER -> Ok

\* mutant: the network handle is assigned whatever the joined worker returned
HandleNetworkJoinAssignsAlways ==
    /\ pc = "hn_join"
    /\ worker.pc = "exited"
    /\ worker' = NoWorker
    /\ network' = Some(loc.i)
    /\ LET r == JoinResult(worker)
       IN  /\ log' = Append(log, Ev("join", loc.i, "caller", Out(r)))
           /\ IF r.ok
                THEN /\ pc' = "prepare_loop"
                     /\ loc' = [loc EXCEPT !.i = @ + 1]
                     /\ UNCHANGED result
                ELSE Return("prepare_before_start_vm",
                            Context(r, "failed to handle network"), <<>>)
    /\ UNCHANGED <<alive, sid, toml_config, share_fs, cgroups_resource, device_manager,
                   hv_fs, restored, saved, task>>

\* .join() ... self.network = Some(network); and the caller's .context(..)?
HandleNetworkJoin ==
    /\ pc = "hn_join"
    /\ worker.pc = "exited"
    /\ worker' = NoWorker
    /\ LET r == JoinResult(worker)
       IN  /\ log' = Append(log, Ev("join", loc.i, "caller", Out(r)))
           /\ IF r.ok
                THEN /\ network' = Some(loc.i)
                     /\ pc' = "prepare_loop"
                     /\ loc' = [loc EXCEPT !.i = @ + 1]
                     /\ UNCHANGED result
                ELSE /\ Return("prepare_before_start_vm",
                               Context(r, "failed to handle network"), <<>>)
                     /\ UNCHANGED network
    /\ UNCHANGED <<alive, sid, toml_config, share_fs, cgroups_resource, device_manager,
                   hv_fs, restored, saved, task>>

-----------------------------------------------------------------------------
(* ResourceManagerInner::setup_after_start_vm with handle_interfaces,       *)
(* handle_neighbours, handle_routes                                         *)

\* the lists a network backend may report for neighs() and routes()
EntryLists == {<<>>, <<"e1">>}

SetupAfterStart ==
    /\ pc = "idle" /\ alive /\ TasksIdle
    /\ pc' = "sa_share_fs"
    /\ loc' = NoLoc
    /\ log' = <<>>
    /\ result' = NoResult
    /\ UNCHANGED <<fields, hv_fs, restored, saved, worker, task>>

\* if let Some(share_fs) = .. { share_fs.setup_device_after_start_vm(..).await.context(..)? }
\* if let Some(network) = .. { .. } Ok(())
SetupAfterShareFs ==
    /\ pc = "sa_share_fs"
    /\ \E r \in (IF share_fs.some THEN {Ok, Err(<<"E:share_fs setup after">>)} ELSE {Ok}) :
        /\ log' = IF share_fs.some
                    THEN Append(log, Ev("setup_device_after_start_vm", 0, "caller", Out(r)))
                    ELSE log
        /\ IF ~r.ok
             THEN Return("setup_after_start_vm",
                         Context(r, "setup share fs device after start vm"), <<>>)
             ELSE IF network.some
               THEN pc' = "sa_interfaces" /\ UNCHANGED <<loc, result>>
               ELSE Return("setup_after_start_vm", Ok, <<>>)
    /\ UNCHANGED <<fields, hv_fs, restored, saved, worker, task>>

\* handle_interfaces: network.interfaces().await.context("get interfaces")?
HandleInterfacesGet ==
    /\ pc = "sa_interfaces"
    /\ \/ /\ log' = Append(log, Ev("interfaces", 0, "caller", "err"))
          /\ Return("setup_after_start_vm",
                    Context(Context(Err(<<"E:interfaces">>), "get interfaces"),
                            "handle interfaces"), <<>>)
       \/ \E n \in 0..MaxIfaces :
          /\ log' = Append(log, Ev("interfaces", n, "caller", "ok"))
          /\ pc' = "sa_update_interface"
          /\ loc' = [loc EXCEPT !.items = n, !.pending = n]
          /\ UNCHANGED result
    /\ UNCHANGED <<fields, hv_fs, restored, saved, worker, task>>

\* mutant: a failed update_interface is ignored and the loop goes on
HandleInterfacesUpdateGoesOn ==
    /\ pc = "sa_update_interface"
    /\ IF loc.pending = 0
         THEN pc' = "sa_neighs" /\ UNCHANGED <<loc, result, log>>
         ELSE \E r \in {Ok, Err(<<"E:update_interface">>)} :
                /\ log' = Append(log, Ev("update_interface", loc.items - loc.pending + 1,
                                         "caller", Out(r)))
                /\ loc' = [loc EXCEPT !.pending = @ - 1]
                /\ UNCHANGED <<pc, result>>
    /\ UNCHANGED <<fields, hv_fs, restored, saved, worker, task>>

\* handle_interfaces: for i in .. { self.agent.update_interface(..).await.context(..)? } Ok(())
HandleInterfacesUpdate ==
    /\ pc = "sa_update_interface"
    /\ IF loc.pending = 0
         THEN pc' = "sa_neighs" /\ UNCHANGED <<loc, result, log>>
         ELSE \E r \in {Ok, Err(<<"E:update_interface">>)} :
                /\ log' = Append(log, Ev("update_interface", loc.items - loc.pending + 1,
                                         "caller", Out(r)))
                /\ IF r.ok
                     THEN /\ loc' = [loc EXCEPT !.pending = @ - 1]
                          /\ UNCHANGED <<pc, result>>
                     ELSE Return("setup_after_start_vm",
                                 Context(Context(r, "update interface"), "handle interfaces"),
                                 <<>>)
    /\ UNCHANGED <<fields, hv_fs, restored, saved, worker, task>>

\* mutant: the is_empty() test is missing, the agent is called with any list
HandleNeighboursGetNoEmptyTest ==
    /\ pc = "sa_neighs"
    /\ \/ /\ log' = Append(log, Ev("neighs", 0, "caller", "err"))
          /\ Return("setup_after_start_vm",
                    Context(Context(Err(<<"E:neighs">>), "neighs"), "handle neighbors"), <<>>)
       \/ \E l \in EntryLists :
          /\ log' = Append(log, Ev("neighs", Len(l), "caller", "ok"))
          /\ pc' = "sa_add_arp_neighbors"
          /\ UNCHANGED <<loc, result>>
    /\ UNCHANGED <<fields, hv_fs, restored, saved, worker, task>>

\* handle_neighbours: network.neighs().await.context("neighs")?; if !neighbors.is_empty()
HandleNeighboursGet ==
    /\ pc = "sa_neighs"
    /\ \/ /\ log' = Append(log, Ev("neighs", 0, "caller", "err"))
          /\ Return("setup_after_start_vm",
                    Context(Context(Err(<<"E:neighs">>), "neighs"), "handle neighbors"), <<>>)
       \/ \E l \in EntryLists :
          /\ log' = Append(log, Ev("neighs", Len(l), "caller", "ok"))
          /\ pc' = IF l # <<>> THEN "sa_add_arp_neighbors" ELSE "sa_routes"
          /\ UNCHANGED <<loc, result>>
    /\ UNCHANGED <<fields, hv_fs, restored, saved, worker, task>>

\* handle_neighbours: self.agent.add_arp_neighbors(..).await.context("update neighbors")?
HandleNeighboursAdd ==
    /\ pc = "sa_add_arp_neighbors"
    /\ \E r \in {Ok, Err(<<"E:add_arp_neighbors">>)} :
        /\ log' = Append(log, Ev("add_arp_neighbors", 0, "caller", Out(r)))
        /\ IF r.ok
             THEN pc' = "sa_routes" /\ UNCHANGED <<loc, result>>
             ELSE Return("setup_after_start_vm",
                         Context(Context(r, "update neighbors"), "handle neighbors"), <<>>)
    /\ UNCHANGED <<fields, hv_fs, restored, saved, worker, task>>

\* handle_routes: network.routes().await.context("routes")?; if !routes.is_empty()
HandleRoutesGet ==
    /\ pc = "sa_routes"
    /\ \/ /\ log' = Append(log, Ev("routes", 0, "caller", "err"))
          /\ Return("setup_after_start_vm",
                    Context(Context(Err(<<"E:routes">>), "routes"), "handle routes"), <<>>)
       \/ \E l \in EntryLists :
          /\ log' = Append(log, Ev("routes", Len(l), "caller", "ok"))
          /\ IF l # <<>>
               THEN pc' = "sa_update_routes" /\ UNCHANGED <<loc, result>>
               ELSE Return("setup_after_start_vm", Ok, <<>>)
    /\ UNCHANGED <<fields, hv_fs, restored, saved, worker, task>>

\* handle_routes: self.agent.update_routes(..).await.context("update routes")?
HandleRoutesUpdate ==
    /\ pc = "sa_update_routes"
    /\ \E r \in {Ok, Err(<<"E:update_routes">>)} :
        /\ log' = Append(log, Ev("update_routes", 0, "caller", Out(r)))
        /\ Return("setup_after_start_vm",
                  Context(Context(r, "update routes"), "handle routes"), <<>>)
    /\ UNCHANGED <<fields, hv_fs, restored, saved, worker, task>>

-----------------------------------------------------------------------------
(* ResourceManagerInner::get_storage_for_sandbox *)

\* the storage lists a share-fs backend may supply
StorageLists == {<<>>, <<"storage1">>, <<"storage1", "storage2">>}

GetStorageForSandbox ==
    /\ pc = "idle" /\ alive /\ TasksIdle
    /\ IF share_fs.some
         THEN \/ /\ log' = <<Ev("get_storages", 0, "caller", "err")>>
                 /\ Return("get_storage_for_sandbox",
                           Context(Err(<<"E:get_storages">>), "get storage"), <<>>)
              \/ \E s \in StorageLists :
                 /\ log' = <<Ev("get_storages", Len(s), "caller", "ok")>>
                 /\ Return("get_storage_for_sandbox", Ok, <<>> \o s)
         ELSE /\ log' = <<>>
              /\ Return("get_storage_for_sandbox", Ok, <<>>)
    /\ UNCHANGED <<fields, hv_fs, restored, saved, worker, task>>

-----------------------------------------------------------------------------
(* ResourceManagerInner::cleanup *)

CleanupStart ==
    /\ pc = "idle" /\ alive /\ TasksIdle
    /\ pc' = "cu_cgroup"
    /\ loc' = NoLoc
    /\ log' = <<>>
    /\ result' = NoResult
    /\ UNCHANGED <<fields, hv_fs, restored, saved, worker, task>>

\* mutant: cleanup goes on after a failed cgroup deletion
CleanupCgroupGoesOn ==
    /\ pc = "cu_cgroup"
    /\ \E r \in {Ok, Err(<<"E:cgroups delete">>)} :
        /\ log' = Append(log, Ev("cgroup_delete", 0, "caller", Out(r)))
        /\ pc' = "cu_bindmounts"
        /\ UNCHANGED <<loc, result>>
    /\ UNCHANGED <<fields, hv_fs, restored, saved, worker, task>>

\* self.cgroups_resource.delete().await.context("delete cgroup")?
CleanupCgroup ==
    /\ pc = "cu_cgroup"
    /\ \E r \in {Ok, Err(<<"E:cgroups delete">>)} :
        /\ log' = Append(log, Ev("cgroup_delete", 0, "caller", Out(r)))
        /\ IF r.ok
             THEN pc' = "cu_bindmounts" /\ UNCHANGED <<loc, result>>
             ELSE Return("cleanup", Context(r, "delete cgroup"), <<>>)
    /\ UNCHANGED <<fields, hv_fs, restored, saved, worker, task>>

\* self.handle_sandbox_bindmounts(false).await.context(..)?
CleanupBindmounts ==
    /\ pc = "cu_bindmounts"
    /\ \E o \in HandleSandboxBindmounts(toml_config, FALSE, 0) :
        /\ log' = log \o o.steps
        /\ IF o.res.ok
             THEN pc' = "cu_share_fs" /\ UNCHANGED <<loc, result>>
             ELSE Return("cleanup",
                         Context(o.res, "failed to cleanup sandbox bindmounts"), <<>>)
    /\ UNCHANGED <<fields, hv_fs, restored, saved, worker, task>>

\* mutant: cleanup takes the share-fs handle out of the orchestrator
CleanupShareFsTaken ==
    /\ pc = "cu_share_fs"
    /\ \E r \in (IF share_fs.some THEN {Ok, Err(<<"E:share_fs mount cleanup">>)} ELSE {Ok}) :
        /\ log' = IF share_fs.some
                    THEN Append(log, Ev("share_fs_mount_cleanup", 0, "caller", Out(r)))
                    ELSE log
        /\ Return("cleanup", Context(r, "failed to cleanup host path"), <<>>)
    /\ share_fs' = None
    /\ UNCHANGED <<alive, sid, toml_config, network, cgroups_resource, device_manager,
                   hv_fs, restored, saved, worker, task>>

\* if let Some(share_fs) = .. { share_fs.get_share_fs_mount().cleanup(..).await.context(..)? }
\* Ok(())
CleanupShareFs ==
    /\ pc = "cu_share_fs"
    /\ \E r \in (IF share_fs.some THEN {Ok, Err(<<"E:share_fs mount cleanup">>)} ELSE {Ok}) :
        /\ log' = IF share_fs.some
                    THEN Append(log, Ev("share_fs_mount_cleanup", 0, "caller", Out(r)))
                    ELSE log
        /\ Return("cleanup", Context(r, "failed to cleanup host path"), <<>>)
    /\ UNCHANGED <<fields, hv_fs, restored, saved, worker, task>>

-----------------------------------------------------------------------------
(* The per-container delegations: handler_rootfs, handler_volumes,          *)
(* update_cgroups, dump                                                     *)

\* CgroupsResource::update_cgroups: records the container's limits, if any are given
CgroupsUpdate(cg, cid, linux_resources) ==
    IF linux_resources = "None" THEN cg ELSE [cg EXCEPT !.limits = @ \cup {cid}]

\* self.rootfs_resource.handler_rootfs(..).await
HandlerRootfs(cid) ==
    /\ pc = "idle" /\ alive /\ TasksIdle
    /\ \E r \in {Ok, Err(<<"E:rootfs">>)} :
        /\ log' = <<Ev("rootfs_handler_rootfs", 0, "caller", Out(r))>>
        /\ Return("handler_rootfs", r, <<cid>>)
    /\ UNCHANGED <<fields, hv_fs, restored, saved, worker, task>>

\* self.volume_resource.handler_volumes(..).await
HandlerVolumes(cid) ==
    /\ pc = "idle" /\ alive /\ TasksIdle
    /\ \E r \in {Ok, Err(<<"E:volumes">>)} :
        /\ log' = <<Ev("volume_handler_volumes", 0, "caller", Out(r))>>
        /\ Return("handler_volumes", r, <<cid>>)
    /\ UNCHANGED <<fields, hv_fs, restored, saved, worker, task>>

\* mutant: absent limits are replaced by default limits before the delegate is called
UpdateCgroupsDefaultLimits(cid, linux_resources) ==
    /\ pc = "idle" /\ alive /\ TasksIdle
    /\ \/ /\ linux_resources # "None"
          /\ log' = <<Ev("cgroups_update_cgroups", 0, "caller", "err")>>
          /\ Return("update_cgroups", Err(<<"E:cgroups update">>), <<linux_resources>>)
          /\ UNCHANGED cgroups_resource
       \/ /\ log' = <<Ev("cgroups_update_cgroups", 0, "caller", "ok")>>
          /\ Return("update_cgroups", Ok, <<linux_resources>>)
          /\ cgroups_resource' = CgroupsUpdate(cgroups_resource, cid, "Some")
    /\ UNCHANGED <<alive, sid, toml_config, network, share_fs, device_manager, hv_fs, restored,
                   saved, worker, task>>

\* self.cgroups_resource.update_cgroups(cid, linux_resources, ..).await
UpdateCgroups(cid, linux_resources) ==
    /\ pc = "idle" /\ alive /\ TasksIdle
    /\ \/ /\ linux_resources # "None"
          /\ log' = <<Ev("cgroups_update_cgroups", 0, "caller", "err")>>
          /\ Return("update_cgroups", Err(<<"E:cgroups update">>), <<linux_resources>>)
          /\ UNCHANGED cgroups_resource
       \/ /\ log' = <<Ev("cgroups_update_cgroups", 0, "caller", "ok")>>
          /\ Return("update_cgroups", Ok, <<linux_resources>>)
          /\ cgroups_resource' = CgroupsUpdate(cgroups_resource, cid, linux_resources)
    /\ UNCHANGED <<alive, sid, toml_config, network, share_fs, device_manager, hv_fs, restored,
                   saved, worker, task>>

\* self.rootfs_resource.dump().await; self.volume_resource.dump().await;
Dump ==
    /\ pc = "idle" /\ alive /\ TasksIdle
    /\ log' = <<Ev("rootfs_dump", 0, "caller", "ok"), Ev("volume_dump", 0, "caller", "ok")>>
    /\ Return("dump", Ok, <<>>)
    /\ UNCHANGED <<fields, hv_fs, restored, saved, worker, task>>

-----------------------------------------------------------------------------
(* impl Persist for ResourceManagerInner *)

\* CgroupsResource::save: the CgroupState of the resource
CgroupsSave(cg) == [path |-> cg.path, limits |-> cg.limits]

\* CgroupsResource::restore(args, state): the resource rebuilt from a CgroupState
CgroupsRestore(args, state) == [path |-> state.path, limits |-> state.limits]

\* CgroupState::default()
DefaultCgroupState == [path |-> "", limits |-> {}]

\* Option::unwrap_or_default
UnwrapOrDefault(o, d) == IF o.some THEN o.v ELSE d

\* what network.save().await may answer: None, or Some(endpoint states)
EndpointSaves == {[some |-> FALSE, v |-> <<>>], [some |-> TRUE, v |-> <<"endpoint1">>],
                  [some |-> TRUE, v |-> <<"endpoint2", "endpoint1">>]}

\* mutant: the backend's snapshot is never assigned to the list
EndpointStateEmpty(net, ens) == <<>>

\* the endpoint list of the ResourceState: vec![] unless a network gives Some(ens)
EndpointState(net, ens) == IF net.some /\ ens.some THEN ens.v ELSE <<>>

\* ResourceState { endpoint, cgroup_state: Some(cgroup_state) }; had_share_fs is not
\* part of the record: it remembers whether a share-fs handle existed at save
ResourceState(endpoint_state, cgroup_state, sfs) ==
    [some |-> TRUE, endpoint |-> endpoint_state,
     cgroup_state |-> [some |-> TRUE, v |-> cgroup_state],
     had_share_fs |-> sfs.some]

Save ==
    /\ pc = "idle" /\ alive /\ TasksIdle
    /\ \E ens \in (IF network.some THEN EndpointSaves ELSE {[some |-> FALSE, v |-> <<>>]}) :
        /\ pc' = "returned"
        /\ loc' = [NoLoc EXCEPT !.cfgs = <<ens>>]
        /\ \/ /\ log' = (IF network.some
                           THEN <<Ev("network_save", Len(ens.v), "caller", "ok")>>
                           ELSE <<>>) \o <<Ev("cgroups_save", 0, "caller", "err")>>
              /\ result' = Ret("save", Err(<<"E:cgroups save">>), <<>>)
              /\ UNCHANGED saved
           \/ /\ log' = (IF network.some
                           THEN <<Ev("network_save", Len(ens.v), "caller", "ok")>>
                           ELSE <<>>) \o <<Ev("cgroups_save", 0, "caller", "ok")>>
              /\ result' = Ret("save", Ok, <<>>)
              /\ saved' = ResourceState(EndpointState(network, ens),
                                        CgroupsSave(cgroups_resource), share_fs)
    /\ UNCHANGED <<fields, hv_fs, restored, worker, task>>

\* mutant: the cgroup resource is restored from the default state, not the saved one
RestoreSelfDefaultCgroup(args, resource_state) ==
    [sid |-> args.sid,
     device_manager |-> DeviceManagerNew,
     network |-> None,
     share_fs |-> None,
     cgroups_resource |-> CgroupsRestore([sid |-> args.sid, config |-> args.config],
                                         DefaultCgroupState),
     toml_config |-> DefaultConfig]

\* mutant: the restored orchestrator keeps the configuration of the arguments
RestoreSelfKeepsConfig(args, resource_state) ==
    [sid |-> args.sid,
     device_manager |-> DeviceManagerNew,
     network |-> None,
     share_fs |-> None,
     cgroups_resource |-> CgroupsRestore([sid |-> args.sid, config |-> args.config],
                                         UnwrapOrDefault(resource_state.cgroup_state,
                                                         DefaultCgroupState)),
     toml_config |-> args.config]

\* the Self that restore builds: Ok(Self { sid, agent, hypervisor, device_manager, .. })
RestoreSelf(args, resource_state) ==
    [sid |-> args.sid,
     device_manager |-> DeviceManagerNew,
     network |-> None,
     share_fs |-> None,
     cgroups_resource |-> CgroupsRestore([sid |-> args.sid, config |-> args.config],
                                         UnwrapOrDefault(resource_state.cgroup_state,
                                                         DefaultCgroupState)),
     toml_config |-> DefaultConfig]

\* Persist::restore(resource_args, resource_state)
Restore(args) ==
    /\ pc = "idle" /\ TasksIdle
    /\ saved.some
    /\ loc' = [NoLoc EXCEPT !.cfgs = <<args>>]
    /\ pc' = "returned"
    /\ \/ /\ log' = <<Ev("device_manager_new", 0, "caller", "err")>>
          /\ result' = Ret("restore", Err(<<"E:device manager new">>), <<>>)
          /\ UNCHANGED <<fields, restored>>
       \/ /\ log' = <<Ev("device_manager_new", 0, "caller", "ok"),
                      Ev("cgroups_restore", 0, "caller", "err")>>
          /\ result' = Ret("restore", Err(<<"E:cgroups restore">>), <<>>)
          /\ UNCHANGED <<fields, restored>>
       \/ /\ log' = <<Ev("device_manager_new", 0, "caller", "ok"),
                      Ev("cgroups_restore", 0, "caller", "ok")>>
          /\ result' = Ret("restore", Ok, <<>>)
          /\ LET self == RestoreSelf(args, saved)
             IN  /\ alive' = TRUE
                 /\ sid' = self.sid
                 /\ device_manager' = self.device_manager
                 /\ network' = self.network
                 /\ share_fs' = self.share_fs
                 /\ cgroups_resource' = self.cgroups_resource
                 /\ toml_config' = self.toml_config
          /\ restored' = [some |-> TRUE, config |-> args.config]
    /\ UNCHANGED <<hv_fs, saved, worker, task>>

-----------------------------------------------------------------------------
(* ResourceManagerInner::handler_devices, one task per calling container    *)

\* oci::LinuxDevice entries a container may declare
LinuxDevices ==
    { [type |-> "b", major |-> 8, minor |-> 0, path |-> "/dev/foo"],
      [type |-> "b", major |-> 8, minor |-> 16, path |-> "/dev/bar"],
      [type |-> "c", major |-> 1, minor |-> 3, path |-> "/dev/null"] }

DevFoo == [type |-> "b", major |-> 8, minor |-> 0, path |-> "/dev/foo"]

DevBar == [type |-> "b", major |-> 8, minor |-> 16, path |-> "/dev/bar"]

DevNull == [type |-> "c", major |-> 1, minor |-> 3, path |-> "/dev/null"]

\* DeviceConfig::BlockCfg(BlockConfig { major, minor, ..Default::default() })
BlockCfg(d) == [major |-> d.major, minor |-> d.minor]

\* the DeviceType the registry answers for a configuration: a block device, or another kind
DeviceInfo(kind, cfg) ==
    [ok |-> TRUE, err |-> <<>>, kind |-> kind,
     device_id |-> <<"dev", cfg.major, cfg.minor>>,
     virt_path |-> <<"/dev/vd", cfg.minor>>,
     driver_option |-> "virtio-blk-pci"]

\* agent::types::Device built from the registry's block device and the input entry
AgentDevice(d, device) ==
    [id |-> device.device_id,
     container_path |-> d.path,
     field_type |-> device.driver_option,
     vm_path |-> device.virt_path]

TaskReturn(c, r, v) ==
    task' = [task EXCEPT ![c] = [NoTask EXCEPT !.pc = "returned", !.devs = task[c].devs,
                                              !.reqs = task[c].reqs,
                                              !.infos = task[c].infos,
                                              !.res = r, !.devices = v]]

\* mutant: the call takes the registry's write lock itself and keeps it
HandlerDevicesStartLocked(c, devs) ==
    /\ pc = "idle" /\ alive
    /\ task[c].pc = "idle"
    /\ device_manager.lock = "free"
    /\ device_manager' = [device_manager EXCEPT !.lock = c]
    /\ task' = [task EXCEPT ![c] = [NoTask EXCEPT !.pc = "hd_loop", !.devs = devs, !.i = 1]]
    /\ UNCHANGED <<alive, sid, toml_config, network, share_fs, cgroups_resource,
                   hv_fs, restored, saved, pc, loc, worker, log, result>>

\* let mut devices = vec![];
HandlerDevicesStart(c, devs) ==
    /\ pc = "idle" /\ alive
    /\ task[c].pc = "idle"
    /\ task' = [task EXCEPT ![c] = [NoTask EXCEPT !.pc = "hd_loop", !.devs = devs, !.i = 1]]
    /\ UNCHANGED <<fields, hv_fs, restored, saved, pc, loc, worker, log, result>>

\* for d in linux.devices.iter() { match d.r#type.as_str() { "b" => .., _ => continue } }
\* Ok(devices)
HandlerDevicesLoop(c) ==
    /\ task[c].pc = "hd_loop"
    /\ LET t == task[c]
       IN  IF t.i > Len(t.devs)
             THEN TaskReturn(c, Ok, t.devices)
             ELSE IF t.devs[t.i].type = "b"
               THEN task' = [task EXCEPT ![c].pc = "dhd_acquire",
                                         ![c].reqs = Append(@, BlockCfg(t.devs[t.i]))]
               ELSE task' = [task EXCEPT ![c].i = @ + 1]
    /\ UNCHANGED <<fields, hv_fs, restored, saved, pc, loc, worker, log, result>>

\* do_handle_device: the registry's write lock is taken
DoHandleDeviceAcquire(c) ==
    /\ task[c].pc = "dhd_acquire"
    /\ device_manager.lock = "free"
    /\ device_manager' = [device_manager EXCEPT !.lock = c]
    /\ task' = [task EXCEPT ![c].pc = "dhd_locked"]
    /\ UNCHANGED <<alive, sid, toml_config, network, share_fs, cgroups_resource,
                   hv_fs, restored, saved, pc, loc, worker,
                   log, result>>

\* do_handle_device: the device is wired and recorded, or the request fails;
\* the lock is released and the answer returned
DoHandleDeviceAttach(c) ==
    /\ task[c].pc = "dhd_locked"
    /\ device_manager.lock = c
    /\ LET cfg == task[c].reqs[Len(task[c].reqs)]
       IN  \/ /\ device_manager' = [device_manager EXCEPT !.lock = "free"]
              /\ task' = [task EXCEPT ![c].pc = "hd_result",
                                      ![c].infos = Append(@, [NoInfo EXCEPT !.ok = FALSE,
                                                       !.err = <<"E:do_handle_device">>])]
           \/ \E kind \in {"Block", "Vfio"} :
              /\ device_manager' = [devices |-> device_manager.devices \cup {cfg},
                                    lock |-> "free"]
              /\ task' = [task EXCEPT ![c].pc = "hd_result",
                                      ![c].infos = Append(@, DeviceInfo(kind, cfg))]
    /\ UNCHANGED <<alive, sid, toml_config, network, share_fs, cgroups_resource,
                   hv_fs, restored, saved, pc, loc, worker,
                   log, result>>

\* mutant: a device the registry failed to handle is skipped and the loop goes on
HandlerDevicesResultSkipsFailure(c) ==
    /\ task[c].pc = "hd_result"
    /\ LET t == task[c]
           device_info == t.infos[Len(t.infos)]
       IN  task' = [task EXCEPT ![c].pc = "hd_loop",
                                ![c].i = @ + 1,
                                ![c].devices =
                                     IF device_info.ok /\ device_info.kind = "Block"
                                       THEN Append(@, AgentDevice(t.devs[t.i], device_info))
                                       ELSE @]
    /\ UNCHANGED <<fields, hv_fs, restored, saved, pc, loc, worker, log, result>>

\* mutant: a descriptor is pushed whatever kind of device the registry answered
HandlerDevicesResultAnyKind(c) ==
    /\ task[c].pc = "hd_result"
    /\ LET t == task[c]
           device_info == t.infos[Len(t.infos)]
       IN  IF ~device_info.ok
             THEN TaskReturn(c, Context(Err(device_info.err), "do handle device"), <<>>)
             ELSE task' = [task EXCEPT ![c].pc = "hd_loop",
                                       ![c].i = @ + 1,
                                       ![c].devices =
                                            Append(@, AgentDevice(t.devs[t.i], device_info))]
    /\ UNCHANGED <<fields, hv_fs, restored, saved, pc, loc, worker, log, result>>

\* .await.context("do handle device")?; if let DeviceType::Block(device) = device_info
\* { devices.push(agent_device) }
HandlerDevicesResult(c) ==
    /\ task[c].pc = "hd_result"
    /\ LET t == task[c]
           device_info == t.infos[Len(t.infos)]
       IN  IF ~device_info.ok
             THEN TaskReturn(c, Context(Err(device_info.err), "do handle device"), <<>>)
             ELSE task' = [task EXCEPT ![c].pc = "hd_loop",
                                       ![c].i = @ + 1,
                                       ![c].devices =
                                            IF device_info.kind = "Block"
                                              THEN Append(@, AgentDevice(t.devs[t.i], device_info))
                                              ELSE @]
    /\ UNCHANGED <<fields, hv_fs, restored, saved, pc, loc, worker, log, result>>

\* the calling container takes the returned descriptors
TaskResume(c) ==
    /\ task[c].pc = "returned"
    /\ task' = [task EXCEPT ![c] = NoTask]
    /\ UNCHANGED <<fields, hv_fs, restored, saved, pc, loc, worker, log, result>>

\* the steps of a handler_devices call of container c
HandlerDevicesStep(c) ==
    \/ HandlerDevicesLoop(c)
    \/ DoHandleDeviceAcquire(c)
    \/ DoHandleDeviceAttach(c)
    \/ HandlerDevicesResult(c)
    \/ TaskResume(c)

-----------------------------------------------------------------------------
(* Inputs of the calls *)

\* the device_configs lists given to prepare_before_start_vm
ConfigLists == SeqsUpTo(ResourceConfigs, MaxConfigs)

\* the linux.devices lists given to handler_devices
DeviceLists == SeqsUpTo(LinuxDevices, MaxDevices)

\* the lists of a second container that calls handler_devices concurrently
ConcurrentDeviceLists == {<<DevFoo>>, <<DevNull, DevBar>>, <<DevFoo, DevBar>>}

\* the lists given to handler_devices between the sandbox's other calls
SandboxDeviceLists == {<<DevFoo>>, <<DevNull, DevFoo>>}

\* the containers whose limits update_cgroups is asked to set
LimitedCids == {"c1"}

\* Option<&LinuxResources>
LinuxResourcesOptions == {"None", "Some"}

\* the ManagerArgs a caller may give to restore
ManagerArgs == {[sid |-> TheSid, config |-> c] : c \in Configs}

-----------------------------------------------------------------------------
(* The sandbox's calls, one at a time: prepare_before_start_vm and           *)
(* setup_after_start_vm take &mut self, which excludes every other call.     *)

Next ==
    \/ \E config \in Configs : New(config)
    \/ \E cfgs \in ConfigLists : PrepareStart(cfgs)
    \/ PrepareLoop
    \/ ShareFsCapabilities
    \/ ShareFsNew
    \/ ShareFsSetupDevice
    \/ ShareFsBindmounts
    \/ HandleNetworkSpawn
    \/ WorkerRuntimeBuild
    \/ WorkerNetworkNew
    \/ WorkerNetworkSetup
    \/ HandleNetworkJoin
    \/ SetupAfterStart
    \/ SetupAfterShareFs
    \/ HandleInterfacesGet
    \/ HandleInterfacesUpdate
    \/ HandleNeighboursGet
    \/ HandleNeighboursAdd
    \/ HandleRoutesGet
    \/ HandleRoutesUpdate
    \/ GetStorageForSandbox
    \/ CleanupStart
    \/ CleanupCgroup
    \/ CleanupBindmounts
    \/ CleanupShareFs
    \/ \E cid \in Cids : HandlerRootfs(cid)
    \/ \E cid \in Cids : HandlerVolumes(cid)
    \/ \E cid \in Cids, lr \in LinuxResourcesOptions :
          (lr = "None" \/ cid \in LimitedCids) /\ UpdateCgroups(cid, lr)
    \/ Dump
    \/ Save
    \/ \E args \in ManagerArgs : Restore(args)
    \/ Resume
    \/ \E c \in Cids, devs \in SandboxDeviceLists : TasksIdle /\ HandlerDevicesStart(c, devs)
    \/ \E c \in Cids : HandlerDevicesStep(c)

Spec == Init /\ [][Next]_vars

\* pre-boot preparation alone, with the scheduling the worker thread can rely on: the OS
\* runs a spawned thread, and join returns once the thread has ended
NetNext ==
    \/ \E config \in Configs : New(config)
    \/ \E cfgs \in ConfigLists : PrepareStart(cfgs)
    \/ PrepareLoop
    \/ ShareFsCapabilities
    \/ ShareFsNew
    \/ ShareFsSetupDevice
    \/ ShareFsBindmounts
    \/ HandleNetworkSpawn
    \/ WorkerRuntimeBuild
    \/ WorkerNetworkNew
    \/ WorkerNetworkSetup
    \/ HandleNetworkJoin
    \/ Resume

NetSpec ==
    /\ Init /\ [][NetNext]_vars
    /\ WF_vars(WorkerRuntimeBuild \/ WorkerNetworkNew \/ WorkerNetworkSetup)
    /\ WF_vars(HandleNetworkJoin)

\* handler_devices called by two containers concurrently on a new orchestrator
DevNext ==
    \/ New(DefaultConfig)
    \/ Resume
    \/ \E devs \in DeviceLists : HandlerDevicesStart("c1", devs)
    \/ \E devs \in ConcurrentDeviceLists : HandlerDevicesStart("c2", devs)
    \/ \E c \in Cids : HandlerDevicesStep(c)

DevSpec == Init /\ [][DevNext]_vars

\* the same calls under the scheduling handler_devices can rely on: a task that can
\* step does, and a task waiting for the registry's lock gets it (tokio's RwLock
\* queues its waiters fairly)
DevFairSpec ==
    /\ DevSpec
    /\ \A c \in Cids :
        /\ WF_vars(HandlerDevicesLoop(c) \/ DoHandleDeviceAttach(c) \/ HandlerDevicesResult(c))
        /\ SF_vars(DoHandleDeviceAcquire(c))

-----------------------------------------------------------------------------
(* Properties *)

PreparePcs == {"prepare_loop", "sf_capabilities", "sf_new", "sf_setup_device",
               "sf_bindmounts", "hn_spawn", "hn_join"}

SetupAfterPcs == {"sa_share_fs", "sa_interfaces", "sa_update_interface", "sa_neighs",
                  "sa_add_arp_neighbors", "sa_routes", "sa_update_routes"}

CleanupPcs == {"cu_cgroup", "cu_bindmounts", "cu_share_fs"}

Returned(op) == pc = "returned" /\ result.op = op

InPrepare == pc \in PreparePcs \/ Returned("prepare_before_start_vm")

InSetupAfter == pc \in SetupAfterPcs \/ Returned("setup_after_start_vm")

InCleanup == pc \in CleanupPcs \/ Returned("cleanup")

\* the positions of the log at which step was called
Calls(step) == {k \in 1..Len(log) : log[k].step = step}

\* the collaborator calls that belong to an entry of each kind
StepsOfKind(kind) ==
    IF kind = "ShareFs"
      THEN {"capabilities", "share_fs_new", "setup_device_before_start_vm",
            "bindmounts_new", "setup_sandbox_bind_mounts"}
      ELSE {"spawn", "runtime_build", "network_new", "network_setup", "join"}

\* C1: prepare_before_start_vm processes the entries of its list one at a time in
\* list order: the calls it makes belong to entries in non-decreasing order, each
\* is a step of its entry's kind, and every entry before the current one was
\* processed.  Once a step of entry i has failed, only the join of that entry's
\* worker may follow: the call returns an error, stopped at entry i, and no step
\* of an entry i+1..n is made.  A call that returns Ok has processed every entry.
C1_EntriesInOrderStopAtFailure ==
    InPrepare =>
        /\ \A k \in 1..Len(log) :
            /\ log[k].entry \in 1..Len(loc.cfgs)
            /\ log[k].entry <= loc.i
            /\ log[k].step \in StepsOfKind(loc.cfgs[log[k].entry])
            /\ \A l \in 1..Len(log) : k < l => log[k].entry <= log[l].entry
            /\ log[k].outcome # "ok" =>
                /\ \A l \in 1..Len(log) :
                      k < l => log[l].entry = log[k].entry /\ log[l].step = "join"
                                 /\ log[l].outcome # "ok"
                /\ pc \in {"hn_join", "returned"}
                /\ pc = "returned" => ~result.ok /\ loc.i = log[k].entry
        /\ \A j \in 1..Len(loc.cfgs) : j < loc.i => \E k \in 1..Len(log) : log[k].entry = j
        /\ pc = "returned" =>
              IF result.ok THEN loc.i = Len(loc.cfgs) + 1
              ELSE loc.i \in 1..Len(loc.cfgs) /\ log # <<>>
                   /\ log[Len(log)].outcome # "ok" /\ log[Len(log)].entry = loc.i

\* a call given two entries has failed on the first: the second was never started
C1_Witness ==
    /\ Returned("prepare_before_start_vm") /\ ~result.ok
    /\ Len(loc.cfgs) = 2 /\ loc.i = 1

\* C2: with a network configured, setup_after_start_vm calls the agent in the order
\* update_interface*, add_arp_neighbors, update_routes: every update_interface call
\* precedes the neighbors call and the routes call, the neighbors call precedes the
\* routes call; a category whose list is empty gets no call: there are at most as
\* many update_interface calls as interfaces reported, and a neighbors (routes) call
\* only after a non-empty neighs() (routes()) answer; a successful run makes exactly
\* one call per interface and one per non-empty list.
C2_AgentCallOrder ==
    InSetupAfter /\ network.some =>
        LET ifc == Calls("update_interface")
            ngh == Calls("add_arp_neighbors")
            rts == Calls("update_routes")
            Reported(step) == {log[k].entry : k \in {j \in Calls(step) : log[j].outcome = "ok"}}
            Count(step) == IF Reported(step) = {} THEN 0 ELSE CHOOSE n \in Reported(step) : TRUE
        IN  /\ \A i \in ifc, n \in ngh : i < n
            /\ \A i \in ifc \cup ngh, r \in rts : i < r
            /\ Cardinality(Calls("interfaces")) <= 1
            /\ Cardinality(ifc) <= Count("interfaces")
            /\ \A i \in ifc : \E q \in Calls("interfaces") : q < i
            /\ Cardinality(ngh) <= Count("neighs")
            /\ Cardinality(rts) <= Count("routes")
            /\ (pc = "returned" /\ result.ok) =>
                  /\ Cardinality(ifc) = Count("interfaces")
                  /\ Cardinality(ngh) = Count("neighs")
                  /\ Cardinality(rts) = Count("routes")

\* a successful run with interfaces and routes but no neighbors
C2_Witness ==
    /\ Returned("setup_after_start_vm") /\ result.ok /\ network.some
    /\ Cardinality(Calls("update_interface")) = 2
    /\ Calls("add_arp_neighbors") = {}
    /\ Calls("update_routes") # {}

\* what cleanup calls when nothing fails, in order
CleanupSteps ==
    <<"cgroup_delete">>
    \o (IF toml_config.sandbox_bind_mounts # <<>>
          THEN <<"bindmounts_new", "cleanup_sandbox_bind_mounts">> ELSE <<>>)
    \o (IF share_fs.some THEN <<"share_fs_mount_cleanup">> ELSE <<>>)

\* C3: cleanup makes its calls in the fixed order cgroup deletion, sandbox
\* bind-mount cleanup, share-fs mount cleanup (the last only with a share-fs
\* handle); a failed call is the last call made and the error is returned; a
\* cleanup that returns Ok has made all of them.
C3_CleanupOrderStopAtFailure ==
    InCleanup =>
        /\ Len(log) <= Len(CleanupSteps)
        /\ \A k \in 1..Len(log) :
            /\ log[k].step = CleanupSteps[k]
            /\ log[k].outcome # "ok" => k = Len(log) /\ pc = "returned" /\ ~result.ok
        /\ ~share_fs.some => Calls("share_fs_mount_cleanup") = {}
        /\ pc = "returned" =>
              IF result.ok THEN Len(log) = Len(CleanupSteps)
              ELSE log # <<>> /\ log[Len(log)].outcome # "ok"

\* cgroup deletion failed: neither the bind mounts nor the share-fs mount are cleaned
C3_Witness ==
    /\ Returned("cleanup") /\ ~result.ok
    /\ Len(log) = 1
    /\ share_fs.some /\ toml_config.sandbox_bind_mounts # <<>>

\* C4: on a hypervisor that reports filesystem sharing unsupported no share-fs
\* backend is ever constructed, the share-fs handle is absent, and
\* get_storage_for_sandbox returns Ok with an empty list.
C4_NoShareFsWhenUnsupported ==
    ~hv_fs =>
        /\ share_fs = None
        /\ Calls("share_fs_new") = {}
        /\ Returned("get_storage_for_sandbox") => result.ok /\ result.val = <<>>

\* a prepare call with a share-fs entry has returned Ok on such a hypervisor
C4_Witness ==
    /\ ~hv_fs
    /\ Returned("prepare_before_start_vm") /\ result.ok
    /\ \E j \in 1..Len(loc.cfgs) : loc.cfgs[j] = "ShareFs"

JoinContext == "Couldn't join on the associated thread"

SetupContext == "failed to set up network"

Range(q) == {q[k] : k \in 1..Len(q)}

\* handle_network is not waiting in join: every spawned worker has been joined, and
\* a call that has returned tells a panic of the worker from a failed construction
\* or setup by the context of its error
C5_JoinedAndDistinct ==
    /\ worker.pc # "none" => pc = "hn_join"
    /\ (InPrepare /\ pc # "hn_join") =>
          \A k \in Calls("spawn") :
              \E l \in Calls("join") : k < l /\ log[l].entry = log[k].entry
    /\ (Returned("prepare_before_start_vm") /\ log # <<>> /\ log[Len(log)].step = "join") =>
          LET w == log[Len(log) - 1]
          IN  /\ w.thread = "worker"
              /\ result.ok <=> w.outcome = "ok"
              /\ w.outcome = "panic" =>
                    /\ result.err = <<"failed to handle network", JoinContext, "E:panic">>
                    /\ SetupContext \notin Range(result.err)
              /\ w.outcome = "err" =>
                    /\ result.err[1] = "failed to handle network"
                    /\ result.err[2] = SetupContext
                    /\ JoinContext \notin Range(result.err)

\* C5: handle_network returns only with its worker thread joined, whether the
\* worker succeeded, failed or panicked; a panic gives the error "Couldn't join on
\* the associated thread", which a failed construction or setup never gives; and
\* the caller does not hang: a call waiting in join always gets past it.
C5_NetworkSetupJoins ==
    /\ []C5_JoinedAndDistinct
    /\ (pc = "hn_join") ~> (pc \in {"prepare_loop", "returned"})

\* a call has returned the error of a worker that panicked in network setup
C5_Witness ==
    /\ Returned("prepare_before_start_vm") /\ ~result.ok
    /\ \E k \in Calls("network_setup") : log[k].outcome = "panic"
    /\ Calls("join") # {}
    /\ worker = NoWorker

\* C6: an orchestrator returned by restore has the cgroup state of the record that
\* save produced, and neither a network nor a share-fs handle, whatever handles
\* existed when the record was saved.
C6_RestoreAfterSave ==
    (Returned("restore") /\ result.ok) =>
        /\ saved.some /\ saved.cgroup_state.some
        /\ CgroupsSave(cgroups_resource) = saved.cgroup_state.v
        /\ network = None
        /\ share_fs = None

\* restored from a record saved with a network, a share-fs and container limits
C6_Witness ==
    /\ Returned("restore") /\ result.ok
    /\ saved.endpoint # <<>>
    /\ saved.had_share_fs
    /\ saved.cgroup_state.v.limits # {}

\* the block entries of a device list, in list order
Blocks(devs) == SelectSeq(devs, LAMBDA d : d.type = "b")

\* the descriptors due for block entries bs answered by infos: one per block answer
RECURSIVE Descriptors(_, _)
Descriptors(bs, infos) ==
    IF bs = <<>> \/ infos = <<>> THEN <<>>
    ELSE (IF Head(infos).kind = "Block"
            THEN << [id |-> Head(infos).device_id,
                     container_path |-> Head(bs).path,
                     field_type |-> Head(infos).driver_option,
                     vm_path |-> Head(infos).virt_path] >>
            ELSE <<>>)
         \o Descriptors(Tail(bs), Tail(infos))

\* C7: handler_devices sends the registry one request per block ("b") entry, in list
\* order, carrying the entry's major and minor, and none for an entry of another
\* kind; when every request has succeeded it returns Ok with one descriptor per
\* block entry that the registry answered with a block device, in input order,
\* with the device id, guest path and driver option of the answer.
C7_BlockDevicesOnly ==
    \A c \in Cids :
        LET t == task[c]
            bs == Blocks(t.devs)
        IN  /\ Len(t.reqs) <= Len(bs)
            /\ \A k \in 1..Len(t.reqs) :
                  t.reqs[k] = [major |-> bs[k].major, minor |-> bs[k].minor]
            /\ (t.pc = "returned" /\ \A k \in 1..Len(t.infos) : t.infos[k].ok) =>
                  /\ t.res.ok
                  /\ Len(t.reqs) = Len(bs)
                  /\ Len(t.infos) = Len(bs)
                  /\ t.devices = Descriptors(bs, t.infos)

\* the list of a block device and a character device has given one descriptor
C7_Witness ==
    \E c \in Cids :
        /\ task[c].pc = "returned" /\ task[c].res.ok
        /\ task[c].devs = <<DevFoo, DevNull>>
        /\ Len(task[c].devices) = 1
        /\ task[c].devices[1].vm_path = <<"/dev/vd", 0>>

\* at most one call is inside the registry's handle operation, and a call holds the
\* lock exactly while it is inside it, for one device
C8_LockDiscipline ==
    /\ Cardinality({c \in Cids : task[c].pc = "dhd_locked"}) <= 1
    /\ device_manager.lock \in Cids \cup {"free"}
    /\ \A c \in Cids : device_manager.lock = c <=> task[c].pc = "dhd_locked"

\* C8: with containers calling handler_devices concurrently, at most one of them is
\* inside the registry's handle-device operation, the lock is held only inside that
\* operation for a single device, and every call returns.
C8_SerializedNoDeadlock ==
    /\ []C8_LockDiscipline
    /\ \A c \in Cids : (task[c].pc \notin {"idle", "returned"}) ~> (task[c].pc = "returned")

\* one container holds the lock while the other waits for it
C8_Witness ==
    /\ task["c1"].pc = "dhd_locked"
    /\ task["c2"].pc = "dhd_acquire"

\* C9: with an empty sandbox bind-mount list, cleanup makes no bind-mount call, the
\* bind-mount step is never what fails, and a cleanup that returns Ok has deleted
\* the cgroup and then cleaned the share-fs mount if there is a share-fs handle.
C9_EmptyBindmountsSkipped ==
    (InCleanup /\ toml_config.sandbox_bind_mounts = <<>>) =>
        /\ Calls("bindmounts_new") = {}
        /\ Calls("cleanup_sandbox_bind_mounts") = {}
        /\ (pc = "returned" /\ ~result.ok) =>
              result.err[1] # "failed to cleanup sandbox bindmounts"
        /\ (pc = "returned" /\ result.ok) =>
              [k \in 1..Len(log) |-> log[k].step]
                = <<"cgroup_delete">>
                  \o (IF share_fs.some THEN <<"share_fs_mount_cleanup">> ELSE <<>>)

\* cleanup has returned Ok with an empty bind-mount list and a share-fs handle
C9_Witness ==
    /\ Returned("cleanup") /\ result.ok
    /\ toml_config.sandbox_bind_mounts = <<>>
    /\ share_fs.some

\* the errors that have been returned: by the orchestrator's last call and by the
\* handler_devices calls
ReturnedErrors ==
    (IF pc = "returned" /\ ~result.ok THEN {[op |-> result.op, err |-> result.err]} ELSE {})
    \cup {[op |-> "handler_devices", err |-> task[c].res.err] :
            c \in {d \in Cids : task[d].pc = "returned" /\ ~task[d].res.ok}}

\* C10 as claimed: every error an operation returns carries a context of this layer
\* above the collaborator's cause.
C10_EveryErrorHasContext ==
    \A e \in ReturnedErrors : Len(e.err) >= 2 /\ e.err[1] \notin Causes

\* the failures that are passed on as the collaborator returned them
PassedThrough ==
    { <<"new", "E:cgroups new">>,
      <<"prepare_before_start_vm", "E:capabilities">>,
      <<"handler_rootfs", "E:rootfs">>,
      <<"handler_volumes", "E:volumes">>,
      <<"update_cgroups", "E:cgroups update">>,
      <<"save", "E:cgroups save">>,
      <<"restore", "E:device manager new">>,
      <<"restore", "E:cgroups restore">> }

\* C10 amended: an error returned by an operation ends with the collaborator's cause
\* and carries at least one context of this layer above it, except for the failures
\* of CgroupsResource::new in new, of the capability query in
\* prepare_before_start_vm, of handler_rootfs, handler_volumes and update_cgroups,
\* of the cgroup save in save, and of DeviceManager::new and CgroupsResource::restore
\* in restore, which are returned as the collaborator gave them.
C10_ContextExceptPassThrough ==
    \A e \in ReturnedErrors :
        LET cause == e.err[Len(e.err)]
        IN  /\ e.err # <<>>
            /\ cause \in Causes
            /\ \A k \in 1..(Len(e.err) - 1) : e.err[k] \notin Causes
            /\ IF <<e.op, cause>> \in PassedThrough THEN Len(e.err) = 1 ELSE Len(e.err) >= 2

\* prepare has returned the error of share_fs::new under its context
C10_Witness ==
    /\ Returned("prepare_before_start_vm")
    /\ result.err = <<"new share fs", "E:share_fs new">>

\* C11: the orchestrator returned by restore has the sandbox id and the configuration
\* of the constructor arguments the caller supplied: config() returns the supplied
\* configuration.
C11_RestoredFromArguments ==
    (Returned("restore") /\ result.ok) =>
        /\ sid = loc.cfgs[1].sid
        /\ Config = loc.cfgs[1].config

\* the step is restore returning a new orchestrator
RestoreStep == pc = "idle" /\ pc' = "returned" /\ result'.op = "restore"

\* C12 as claimed: on one orchestrator, a handle that has been set is never set again.
C12_HandlesSetAtMostOnce ==
    [][~RestoreStep =>
         /\ network.some => network' = network
         /\ share_fs.some => share_fs' = share_fs]_vars

\* C12 amended: the handles are assigned only by prepare_before_start_vm, the network
\* handle when an entry's worker has been joined and the share-fs handle at the end
\* of a share-fs entry (a later entry of the same kind replaces the handle); no step
\* of setup_after_start_vm, get_storage_for_sandbox, handler_rootfs, handler_volumes,
\* handler_devices, update_cgroups, cleanup, dump or save changes either handle.
C12_HandlesSetOnlyInPrepare ==
    [][~RestoreStep =>
         /\ network' # network => pc = "hn_join"
         /\ share_fs' # share_fs => pc \in {"sf_capabilities", "sf_bindmounts"}]_vars

\* both handles are set and a post-boot operation has run to its end
C12_Witness ==
    /\ Returned("cleanup") /\ result.ok
    /\ network.some /\ share_fs.some

\* the step is update_cgroups called without limits and returning
UpdateCgroupsNoneStep ==
    /\ pc = "idle" /\ pc' = "returned"
    /\ result'.op = "update_cgroups" /\ result'.val = <<"None">>

C14_SavedRecord ==
    Returned("save") =>
        LET ens == loc.cfgs[1]
        IN  /\ \A k \in 1..Len(log) : log[k].step \in {"network_save", "cgroups_save"}
            /\ ~network.some => Calls("network_save") = {}
            /\ result.ok =>
                 /\ saved.some
                 /\ saved.endpoint = IF network.some /\ ens.some THEN ens.v ELSE <<>>
                 /\ saved.cgroup_state = [some |-> TRUE, v |-> CgroupsSave(cgroups_resource)]
                 /\ DOMAIN saved = {"some", "endpoint", "cgroup_state", "had_share_fs"}

\* save has returned the snapshot of a network backend, with a cgroup holding limits
C14_Witness ==
    /\ Returned("save") /\ result.ok
    /\ network.some
    /\ saved.endpoint = <<"endpoint2", "endpoint1">>
    /\ saved.cgroup_state.v.limits # {}

\* the call of the log at position k was made right after an Ok call of step prev for
\* the same entry
Follows(k, prev) ==
    /\ k > 1
    /\ log[k - 1].step = prev
    /\ log[k - 1].outcome = "ok"
    /\ log[k - 1].entry = log[k].entry

\* every share-fs step of the running prepare_before_start_vm was made right after
\* the step before it had succeeded for the same entry
ShareFsStepsInOrder ==
    (InPrepare /\ hv_fs) =>
        \A k \in 1..Len(log) :
            /\ log[k].step = "capabilities" =>
                 k = 1 \/ log[k - 1].entry < log[k].entry
            /\ log[k].step = "share_fs_new" => Follows(k, "capabilities")
            /\ log[k].step = "setup_device_before_start_vm" => Follows(k, "share_fs_new")
            /\ log[k].step = "bindmounts_new" => Follows(k, "setup_device_before_start_vm")
            /\ log[k].step = "setup_sandbox_bind_mounts" => Follows(k, "bindmounts_new")

\* the four steps of entry e have succeeded in log l (the bind-mount step makes no
\* call when the configuration lists no bind mount)
ShareFsEntryDone(l, e) ==
    /\ \E k \in 1..Len(l) : /\ l[k].step = "setup_device_before_start_vm"
                            /\ l[k].entry = e /\ l[k].outcome = "ok"
    /\ \/ toml_config.sandbox_bind_mounts = <<>>
       \/ \E k \in 1..Len(l) : /\ l[k].step = "setup_sandbox_bind_mounts"
                               /\ l[k].entry = e /\ l[k].outcome = "ok"

\* C15: on a hypervisor that supports filesystem sharing, a share-fs entry is processed
\* as capability query, backend construction, pre-boot device setup, bind-mount setup,
\* each step made only after the one before it succeeded, and the share-fs handle is
\* stored only by the step that ends the bind-mount setup with all four succeeded.
C15_ShareFsStepOrder ==
    /\ []ShareFsStepsInOrder
    /\ [][(hv_fs /\ share_fs'.some /\ share_fs' # share_fs) =>
            /\ pc = "sf_bindmounts"
            /\ share_fs' = Some(loc.i)
            /\ ShareFsEntryDone(log', loc.i)]_vars

\* a share-fs entry has gone through its four steps, bind mounts included
C15_Witness ==
    /\ Returned("prepare_before_start_vm") /\ result.ok
    /\ hv_fs /\ share_fs.some
    /\ ShareFsEntryDone(log, share_fs.entry)
    /\ Calls("setup_sandbox_bind_mounts") # {}

\* the steps of the closure given to thread::spawn
WorkerSteps == {"runtime_build", "network_new", "network_setup"}

\* the steps of a network entry run where and when handle_network puts them: the
\* closure's steps on the worker thread spawned for the entry, everything else on
\* the caller's, the construction after the runtime was built, the setup after the
\* construction succeeded
NetworkStepsOnWorker ==
    InPrepare =>
        \A k \in 1..Len(log) :
            /\ log[k].thread = IF log[k].step \in WorkerSteps THEN "worker" ELSE "caller"
            /\ log[k].step = "spawn" =>
                 \A l \in Calls("spawn") : log[l].entry = log[k].entry => l = k
            /\ log[k].step = "runtime_build" => Follows(k, "spawn")
            /\ log[k].step = "network_new" => Follows(k, "runtime_build")
            /\ log[k].step = "network_setup" => Follows(k, "network_new")
            /\ log[k].step = "join" =>
                 /\ k > 1 /\ log[k - 1].step \in WorkerSteps
                 /\ log[k - 1].entry = log[k].entry

\* C16: in network setup the backend is constructed and then set up on the worker
\* thread spawned for the call, never on the caller's thread; the setup is made only
\* after the construction succeeded; and the network handle is assigned only by the
\* step that joins a worker whose setup succeeded.
C16_NetworkOnWorkerThread ==
    /\ []NetworkStepsOnWorker
    /\ [][(~RestoreStep /\ network' # network) =>
            /\ pc = "hn_join"
            /\ worker.pc = "exited" /\ worker.kind = "ok"
            /\ log[Len(log)] = Ev("network_setup", loc.i, "worker", "ok")
            /\ log'[Len(log')] = Ev("join", loc.i, "caller", "ok")
            /\ network' = Some(loc.i)]_vars

\* a network entry has been set up on its worker and the handle assigned
C16_Witness ==
    /\ InPrepare
    /\ network.some
    /\ \E k \in Calls("join") : log[k].entry = network.entry /\ log[k].outcome = "ok"
    /\ \E k \in Calls("network_setup") : log[k].thread = "worker" /\ log[k].outcome = "ok"

\* the calls setup_after_start_vm makes on the guest agent
AgentSteps == {"update_interface", "add_arp_neighbors", "update_routes"}

\* C17: setup_after_start_vm makes the share-fs post-boot device setup, if there is a
\* share-fs handle, before any other call, and stops at the first call that fails:
\* after a failed call no call is made and the operation returns an error, so a
\* failed share-fs setup leaves zero agent calls, a failed update_interface no
\* further interface, neighbour or route call, a failed neighbour call no route call.
C17_SetupAfterStopsAtFailure ==
    InSetupAfter =>
        /\ \A k \in Calls("setup_device_after_start_vm") : share_fs.some /\ k = 1
        /\ (share_fs.some /\ log # <<>>) => log[1].step = "setup_device_after_start_vm"
        /\ \A k \in 1..Len(log) :
             log[k].outcome # "ok" =>
                /\ k = Len(log)
                /\ pc = "returned" /\ ~result.ok
                /\ log[k].step = "setup_device_after_start_vm" =>
                     \A l \in 1..Len(log) : log[l].step \notin AgentSteps
                /\ log[k].step = "update_interface" =>
                     /\ Calls("add_arp_neighbors") = {} /\ Calls("update_routes") = {}
                     /\ Cardinality(Calls("update_interface")) = log[k].entry
                /\ log[k].step = "add_arp_neighbors" => Calls("update_routes") = {}
        /\ (pc = "returned" /\ ~result.ok) => log[Len(log)].outcome # "ok"

\* the first of two interface updates has failed after the share-fs setup
C17_Witness ==
    /\ Returned("setup_after_start_vm") /\ ~result.ok
    /\ share_fs.some
    /\ loc.items = 2
    /\ log[Len(log)] = Ev("update_interface", 1, "caller", "err")

\* the entries of the given kind that the running prepare_before_start_vm has
\* processed to their end
DoneEntries(kind) == {j \in 1..Len(loc.cfgs) : j < loc.i /\ loc.cfgs[j] = kind}

\* the largest element of a non-empty set of numbers
Max(S) == CHOOSE m \in S : \A x \in S : x <= m

\* the handles are what the last processed entry of each kind left
HandlesOfDoneEntries ==
    InPrepare =>
        /\ DoneEntries("Network") # {} => network = Some(Max(DoneEntries("Network")))
        /\ DoneEntries("ShareFs") # {} =>
             share_fs = IF hv_fs THEN Some(Max(DoneEntries("ShareFs"))) ELSE None

\* C18: a step of prepare_before_start_vm that does not end an entry with success, the
\* failing step included, changes neither handle; so when the call fails on entry i
\* the handles are what the entries 1..i-1 left, nothing of them being rolled back
\* and nothing of entry i being kept.
C18_FailedEntryLeavesHandles ==
    /\ []HandlesOfDoneEntries
    /\ [][(pc \in PreparePcs /\ loc'.i = loc.i) => UNCHANGED <<network, share_fs>>]_vars

\* the second entry has failed in its bind-mount setup, after its pre-boot device
\* setup, and the network handle of the first entry is still there
C18_Witness ==
    /\ Returned("prepare_before_start_vm") /\ ~result.ok
    /\ loc.cfgs = <<"Network", "ShareFs">> /\ loc.i = 2
    /\ network = Some(1)
    /\ \E k \in Calls("setup_device_before_start_vm") : log[k].entry = 2 /\ log[k].outcome = "ok"
    /\ result.err[1] = "failed setup sandbox bindmounts"

\* C19: a handler_devices call returns as soon as the registry fails a request: the
\* failed request is the last one made, so no request is made for a later device;
\* the call returns an error and no descriptor; and the devices of its earlier
\* requests are still in the registry.
C19_DeviceFailureStopsCall ==
    \A c \in Cids :
        LET t == task[c]
        IN  /\ \A k \in 1..Len(t.infos) :
                 ~t.infos[k].ok =>
                    /\ k = Len(t.infos) /\ k = Len(t.reqs)
                    /\ t.pc \in {"hd_result", "returned"}
                    /\ t.pc = "returned" => ~t.res.ok
            /\ (t.pc = "returned" /\ ~t.res.ok) =>
                 /\ t.devices = <<>>
                 /\ t.infos # <<>> /\ ~t.infos[Len(t.infos)].ok
                 /\ t.res.err = <<"do handle device", "E:do_handle_device">>
                 /\ \A j \in 1..(Len(t.reqs) - 1) :
                      t.infos[j].ok /\ t.reqs[j] \in device_manager.devices

\* the second block device of a call has failed; the first stays in the registry and
\* a later call would find it
C19_Witness ==
    \E c \in Cids :
        /\ task[c].pc = "returned" /\ ~task[c].res.ok
        /\ task[c].devs = <<DevFoo, DevBar>>
        /\ Len(task[c].reqs) = 2
        /\ BlockCfg(DevFoo) \in device_manager.devices
        /\ BlockCfg(DevBar) \notin device_manager.devices

\* C20: on an orchestrator that restore returned and on which prepare_before_start_vm
\* has not been called since, cleanup calls nothing but the cgroup deletion: no
\* bind-mount cleanup and no share-fs mount cleanup, whatever bind-mount list the
\* configuration given to restore holds and whatever share-fs existed at save.
C20_RestoredCleanupOnlyCgroup ==
    (restored.some /\ InCleanup) =>
        /\ \A k \in 1..Len(log) : log[k].step = "cgroup_delete"
        /\ Len(log) <= 1
        /\ (pc = "returned" /\ result.ok) => Len(log) = 1
        /\ (pc = "returned" /\ ~result.ok) => result.err[1] = "delete cgroup"

\* cleanup has returned Ok on an orchestrator restored with a configuration that lists
\* a bind mount, from a record saved while a share-fs existed
C20_Witness ==
    /\ restored.some
    /\ Returned("cleanup") /\ result.ok
    /\ restored.config.sandbox_bind_mounts # <<>>
    /\ saved.had_share_fs

====
